---- MODULE Spec2Model ----
(***************************************************************************)
(* password-gen.py: diceware passphrase generation.                        *)
(*                                                                         *)
(* The module models the four functions of the generation pipeline         *)
(*   randomInt, rollDice, getCharsToChange, replaceChars, generatePassword *)
(* as one state machine.  `op` names the function that was called; each    *)
(* specification below starts one of them on inputs drawn from bounded     *)
(* sets.  Strings are sequences of one-character strings, Python lists are *)
(* sequences, a Python dict is the sequence of its items in insertion      *)
(* order, and the outcome of a call is a record [kind, val]: kind "raise"  *)
(* carries the exception's name.                                           *)
(***************************************************************************)
EXTENDS Integers, Sequences, FiniteSets

VARIABLES
    op,                \* the function that was called
    pc,                \* position in the code
    start, end, iterations, iter, byte,   \* randomInt's frame
    numCharsToChange, wordLengths,        \* getCharsToChange's parameters
    charsToChange,     \* the plan: getCharsToChange's dict, replaceChars' $dictionary
    dictionary, wordNum, extra,           \* generatePassword's parameters
    rolls,             \* the list of str(rollDice(1)) under construction (line 90)
    words,             \* the list of words (generatePassword / replaceChars)
    ret,               \* outcome of the call: [kind, val]
    sampled,           \* history: os.urandom has been called
    looked,            \* history: the wordlist values in the order they were looked up
    overwrote,         \* history: a plan entry has been overwritten
    words0,            \* history: replaceChars' list of words when it was first called
    once,              \* history: the list of words after the first replaceChars
    applied            \* history: number of replaceChars calls that returned

vars == <<op, pc, start, end, iterations, iter, byte, numCharsToChange,
          wordLengths, charsToChange, dictionary, wordNum, extra, rolls,
          words, ret, sampled, looked, overwrote, words0, once, applied>>

----------------------------------------------------------------------------
(* Bounds of the model *)

\* randomInt is called with start, end in -2..MaxSmall and around 255
MaxSmall == 8
\* randomInt is called with iterations in 0..MaxIterations
MaxIterations == 2
\* at most MaxWords words
MaxWords == 2
\* generatePassword is asked for at most MaxExtra substitutions
MaxExtra == 1
\* getCharsToChange is asked for at most MaxCount items, and replaceChars
\* is given plans of at most MaxCount items
MaxCount == 2
\* words of the bounded inputs have at most MaxWordLen characters
MaxWordLen == 2

(* Program constants *)

\* default number of draws of randomInt (line 8)
DefaultIterations == 1000
\* the largest byte (line 14)
ByteMax == 255
\* number of rolls that make a wordlist key (line 90)
RollsPerWord == 5

----------------------------------------------------------------------------
(* Python primitives *)

\* os.urandom(1): any one byte
Bytes == 0..ByteMax

\* a % b of Python: the result has the sign of b; b = 0 raises, see randomInt
PyMod(a, b) == IF b > 0 THEN a % b ELSE 0 - ((0 - a) % (0 - b))

RECURSIVE IntFromBytes(_)
\* int.from_bytes(byte, byteorder='big', signed=False); b'' is 0
IntFromBytes(bs) ==
    IF bs = <<>> THEN 0
    ELSE IntFromBytes(SubSeq(bs, 1, Len(bs) - 1)) * (ByteMax + 1) + bs[Len(bs)]

DigitChars == <<"0", "1", "2", "3", "4", "5", "6", "7", "8", "9">>

RECURSIVE StrNat(_)
StrNat(n) ==
    IF n < 10 THEN <<DigitChars[n + 1]>>
    ELSE StrNat(n \div 10) \o <<DigitChars[(n % 10) + 1]>>

\* str(n) for an integer n
Str(n) == IF n < 0 THEN <<"-">> \o StrNat(0 - n) ELSE StrNat(n)

RECURSIVE JoinStr(_, _)
\* sep.join(strs)
JoinStr(sep, strs) ==
    IF strs = <<>> THEN <<>>
    ELSE IF Len(strs) = 1 THEN strs[1]
    ELSE strs[1] \o sep \o JoinStr(sep, Tail(strs))

\* s[:stop]
PySliceTo(s, stop) ==
    LET k == IF stop < 0 THEN stop + Len(s) ELSE stop
        n == IF k < 0 THEN 0 ELSE IF k > Len(s) THEN Len(s) ELSE k
    IN  SubSeq(s, 1, n)

\* s[begin:]
PySliceFrom(s, begin) ==
    LET k == IF begin < 0 THEN begin + Len(s) ELSE begin
        n == IF k < 0 THEN 0 ELSE IF k > Len(s) THEN Len(s) ELSE k
    IN  SubSeq(s, n + 1, Len(s))

\* outcomes of a call
IntOut(v) == [kind |-> "int", val |-> v]
RaiseOut(e) == [kind |-> "raise", val |-> e]
NoRet == [kind |-> "none", val |-> "none"]
IntVals(outs) == {o.val : o \in {x \in outs : x.kind = "int"}}
Raises(outs) == {x \in outs : x.kind = "raise"}

----------------------------------------------------------------------------
(* randomInt, lines 8-21 *)

\* line 14: the range check
RandomIntRejects(s, e) == s < 0 \/ e > ByteMax

\* a divisor one too large
RandomIntDivisorWide(s, e) == e - s + 2

\* line 21 divides by end - start + 1
RandomIntDivisor(s, e) == e - s + 1

\* the byte without its top bit
RandomIntValueSevenBit(s, e, bs) ==
    PyMod(IntFromBytes(bs) % 128, RandomIntDivisor(s, e)) + s

\* line 21, byte mod (end - start + 1) + start, for a nonzero divisor
RandomIntValue(s, e, bs) == PyMod(IntFromBytes(bs), RandomIntDivisor(s, e)) + s

\* line 21
RandomIntReturn(s, e, bs) ==
    IF RandomIntDivisor(s, e) = 0 THEN RaiseOut("ZeroDivisionError")
    ELSE IntOut(RandomIntValue(s, e, bs))

\* lines 17-19: the value of byte after the loop
LastBytes(n) == IF n <= 0 THEN {<<>>} ELSE {<<b>> : b \in Bytes}

\* the outcomes of randomInt(start, end, iterations)
randomInt(s, e, n) ==
    IF RandomIntRejects(s, e) THEN {RaiseOut("Exception")}
    ELSE {RandomIntReturn(s, e, bs) : bs \in LastBytes(n)}

\* randomInt(0, end) with the default number of iterations, tabulated for
\* the ends that callers pass
RandomIntFromZero[e \in (-1)..(ByteMax + 1)] == randomInt(0, e, DefaultIterations)

\* a die that forgets its offset
rollDiceNoOffset(offset) == RandomIntFromZero[5]

\* rollDice(offset), line 28
rollDice(offset) ==
    {IF o.kind = "int" THEN IntOut(o.val + offset) ELSE o :
        o \in RandomIntFromZero[5]}

----------------------------------------------------------------------------
(* The frames of the functions that are not running *)

RandomIntIdle ==
    start = 0 /\ end = 0 /\ iterations = 0 /\ iter = 0 /\ byte = <<>>

PlanIdle ==
    numCharsToChange = 0 /\ wordLengths = <<>> /\ charsToChange = <<>>
    /\ overwrote = FALSE

GenIdle ==
    dictionary = "none" /\ wordNum = 0 /\ extra = 0 /\ rolls = <<>>
    /\ looked = <<>>

ApplyIdle ==
    words = <<>> /\ words0 = <<>> /\ once = <<>> /\ applied = 0

randomIntVars == <<start, end, iterations, iter, byte>>
planVars == <<numCharsToChange, wordLengths, charsToChange, overwrote>>
genVars == <<dictionary, wordNum, extra, rolls, looked>>
applyVars == <<words, words0, once, applied>>

----------------------------------------------------------------------------
(* randomInt step by step: SpecRandomInt *)

\* the arguments randomInt is called with: around 0 and around ByteMax,
\* valid and invalid ones
ArgValues == (-2..MaxSmall) \cup ((ByteMax - 2)..(ByteMax + 2))

InitRandomInt ==
    /\ op = "randomInt" /\ pc = "randomInt"
    /\ start \in ArgValues /\ end \in ArgValues
    /\ iterations \in 0..MaxIterations
    /\ iter = 0 /\ byte = <<>>
    /\ PlanIdle /\ GenIdle /\ ApplyIdle
    /\ ret = NoRet /\ sampled = FALSE

\* lines 14-15
RandomIntCheck ==
    /\ pc = "randomInt"
    /\ IF RandomIntRejects(start, end)
       THEN pc' = "done" /\ ret' = RaiseOut("Exception")
       ELSE pc' = "draw" /\ ret' = ret
    /\ UNCHANGED <<op, randomIntVars, planVars, genVars, applyVars, sampled>>

\* lines 18-19: one pass of the loop
RandomIntDraw ==
    /\ pc = "draw" /\ iter < iterations
    /\ \E b \in Bytes : byte' = <<b>>
    /\ iter' = iter + 1
    /\ sampled' = TRUE
    /\ UNCHANGED <<op, pc, start, end, iterations, planVars, genVars, applyVars, ret>>

\* line 21
RandomIntDone ==
    /\ pc = "draw" /\ iter >= iterations
    /\ ret' = RandomIntReturn(start, end, byte)
    /\ pc' = "done"
    /\ UNCHANGED <<op, randomIntVars, planVars, genVars, applyVars, sampled>>

NextRandomInt == RandomIntCheck \/ RandomIntDraw \/ RandomIntDone

SpecRandomInt == InitRandomInt /\ [][NextRandomInt]_vars

\* the contract's ranges: 0 <= start <= end <= 255
ValidRange(s, e) == 0 <= s /\ s <= e /\ e <= ByteMax

\* number of the 256 byte values that line 21 maps to v
Preimages(s, e, v) == Cardinality({b \in Bytes : RandomIntValue(s, e, <<b>>) = v})

\* C1: for 0 <= start <= end <= 255 and every byte drawn, randomInt returns
\* an integer r with start <= r <= end.
SampleInRange ==
    (op = "randomInt" /\ pc = "done" /\ ValidRange(start, end))
        => (ret.kind = "int" /\ start <= ret.val /\ ret.val <= end)

\* a die-sized range whose largest value was drawn, after a discarded draw
SampleInRangeWitness ==
    /\ op = "randomInt" /\ pc = "done"
    /\ start = 0 /\ end = 5 /\ iter = 2
    /\ ret = IntOut(5)

\* the ranges that are not inside [0,255] or have start > end
InvalidRange(s, e) ==
    s < 0 \/ s > ByteMax \/ e < 0 \/ e > ByteMax \/ s > e

\* C2: randomInt fails with the range error ("Exception", line 15),
\* returning no integer, for every range that is not inside [0,255] or that
\* has start > end.
InvalidRangeRaises ==
    (op = "randomInt" /\ pc = "done" /\ InvalidRange(start, end))
        => ret = RaiseOut("Exception")

\* C7 as claimed: every value of a valid range is the result of the same
\* number of the 256 byte values (the value returned has as many byte
\* preimages as start has).
SampleUnbiased ==
    (op = "randomInt" /\ pc = "done" /\ ValidRange(start, end))
        => Preimages(start, end, ret.val) = Preimages(start, end, start)

\* C7 as amended: with n = end - start + 1, a value v of a valid range is the
\* result of 256 div n byte values, and of one more when v - start < 256 mod n;
\* the counts are all equal exactly when n divides 256.
SampleBiasBounded ==
    (op = "randomInt" /\ pc = "done" /\ ValidRange(start, end))
        => LET n == end - start + 1
               q == (ByteMax + 1) \div n
               r == (ByteMax + 1) % n
           IN  /\ ret.kind = "int"
               /\ Preimages(start, end, ret.val)
                     = q + (IF ret.val - start < r THEN 1 ELSE 0)
               /\ (r = 0 => Preimages(start, end, ret.val)
                               = Preimages(start, end, start))

\* the die: face 5 was drawn, which 42 bytes give, while 43 bytes give face 0
SampleBiasWitness ==
    /\ op = "randomInt" /\ pc = "done"
    /\ start = 0 /\ end = 5 /\ iter = 1
    /\ ret = IntOut(5)
    /\ Preimages(0, 5, 5) = 42 /\ Preimages(0, 5, 0) = 43

----------------------------------------------------------------------------
(* getCharsToChange, lines 43-64 *)

\* lines 48-55
extraChars ==
    << <<"~", "!", "#", "$", "%", "^">>,
       <<"&", "*", "(", ")", "-", "=">>,
       <<"+", "[", "]", "\\", "{", "}">>,
       <<":", ";", "\"", "'", "<", ">">>,
       <<"?", "/", "0", "1", "2", "3">>,
       <<"4", "5", "6", "7", "8", "9">> >>

\* a dict is the sequence of its items [key, val] in insertion order
DictKeys(d) == {d[k].key : k \in 1..Len(d)}
DictHas(d, key) == key \in DictKeys(d)
DictGet(d, key) == d[CHOOSE k \in 1..Len(d) : d[k].key = key].val

\* an assignment that always adds an item
DictSetAppending(d, key, val) == Append(d, [key |-> key, val |-> val])

\* d[key] = val: a present key keeps its place and takes the new value
DictSet(d, key, val) ==
    IF DictHas(d, key)
    THEN [k \in 1..Len(d) |->
            IF d[k].key = key THEN [key |-> key, val |-> val] ELSE d[k]]
    ELSE Append(d, [key |-> key, val |-> val])

\* line 58: the loop's condition
PlanLoopRuns(d, n) == Len(d) < n

\* the word's length taken as the last index
CharIdxEndLength(lengths, wordIdx) == lengths[wordIdx + 1]

\* line 60: the last index of the word, wordLengths[wordIdx] - 1
CharIdxEnd(lengths, wordIdx) == lengths[wordIdx + 1] - 1

\* line 59: the outcomes of the draw of wordIdx
WordIdxDraw(lengths) == RandomIntFromZero[Len(lengths) - 1]

\* line 60: the outcomes of the draw of charIdx
CharIdxDraw(lengths, wordIdx) ==
    RandomIntFromZero[CharIdxEnd(lengths, wordIdx)]

\* lines 59-62: one pass of the loop in which wordIdx is drawn
PlanIter(wordIdx) ==
    /\ pc = "plan_loop"
    /\ PlanLoopRuns(charsToChange, numCharsToChange)
    /\ wordIdx \in IntVals(WordIdxDraw(wordLengths))
    /\ \E charIdx \in IntVals(CharIdxDraw(wordLengths, wordIdx)),
          row \in IntVals(rollDice(0)), col \in IntVals(rollDice(0)) :
          charsToChange' =
              DictSet(charsToChange, wordIdx,
                      <<charIdx, <<extraChars[row + 1][col + 1]>> >>)
    /\ overwrote' = (overwrote \/ DictHas(charsToChange, wordIdx))
    /\ sampled' = TRUE
    /\ UNCHANGED <<op, pc, randomIntVars, numCharsToChange, wordLengths,
                   genVars, applyVars, ret>>

\* lines 59-60: a draw raises, and so does the call
PlanRaise ==
    /\ pc = "plan_loop"
    /\ PlanLoopRuns(charsToChange, numCharsToChange)
    /\ \E e \in Raises(WordIdxDraw(wordLengths)) \cup
                UNION {Raises(CharIdxDraw(wordLengths, w)) :
                          w \in IntVals(WordIdxDraw(wordLengths))} :
          /\ ret' = e
          \* only the range check of line 14 raises before the bytes are drawn
          /\ sampled' = (sampled \/ e \notin Raises(WordIdxDraw(wordLengths))
                                 \/ e # RaiseOut("Exception"))
    /\ pc' = "done"
    /\ UNCHANGED <<op, randomIntVars, planVars, genVars, applyVars>>

\* line 64, back in the caller
PlanReturn ==
    /\ pc = "plan_loop"
    /\ ~PlanLoopRuns(charsToChange, numCharsToChange)
    /\ IF op = "getCharsToChange"
       THEN pc' = "done" /\ ret' = [kind |-> "dict", val |-> charsToChange]
       ELSE pc' = "replace" /\ ret' = ret
    /\ UNCHANGED <<op, randomIntVars, planVars, genVars, applyVars, sampled>>

\* the lists of at most MaxWords word lengths, each at most MaxWordLen
WordLengthLists == UNION {[1..n -> 0..MaxWordLen] : n \in 0..MaxWords}

InitPlan ==
    /\ op = "getCharsToChange" /\ pc = "plan_loop"
    /\ numCharsToChange \in 0..MaxCount
    /\ wordLengths \in WordLengthLists
    /\ charsToChange = <<>> /\ overwrote = FALSE
    /\ RandomIntIdle /\ GenIdle /\ ApplyIdle
    /\ ret = NoRet /\ sampled = FALSE

NextPlan == (\E w \in 0..(MaxWords - 1) : PlanIter(w)) \/ PlanRaise \/ PlanReturn

SpecPlan == InitPlan /\ [][NextPlan]_vars

\* the loop keeps drawing, and each word index is drawn again and again
SpecPlanFair ==
    /\ SpecPlan
    /\ \A w \in 0..(MaxWords - 1) : WF_vars(PlanIter(w))
    /\ WF_vars(PlanReturn)

\* every item of plan d has a word index of lengths and a character index
\* of that word
PlanInBounds(d, lengths) ==
    \A k \in 1..Len(d) :
        /\ d[k].key \in 0..(Len(lengths) - 1)
        /\ d[k].val[1] \in 0..(lengths[d[k].key + 1] - 1)

\* the items of d have distinct keys
PlanDistinct(d) == Cardinality(DictKeys(d)) = Len(d)

\* C5: for 0 <= count <= len(word_lengths), a returned plan has exactly count
\* distinct word indices, each of the list, each with a character index of
\* its word; while it is built the plan never holds a character index out of
\* bounds nor more than count items.
PlanWellFormed ==
    (op = "getCharsToChange" /\ numCharsToChange <= Len(wordLengths))
        => /\ PlanInBounds(charsToChange, wordLengths)
           /\ PlanDistinct(charsToChange)
           /\ Len(charsToChange) <= numCharsToChange
           /\ ret.kind = "dict"
                 => /\ Len(ret.val) = numCharsToChange
                    /\ PlanDistinct(ret.val)
                    /\ PlanInBounds(ret.val, wordLengths)

\* two of two words planned, one at its last character, after a collision
PlanWellFormedWitness ==
    /\ op = "getCharsToChange" /\ ret.kind = "dict"
    /\ wordLengths = <<2, 2>> /\ numCharsToChange = 2
    /\ Len(ret.val) = 2 /\ overwrote
    /\ \E k \in 1..2 : ret.val[k].val[1] = 1

----------------------------------------------------------------------------
(* replaceChars, lines 67-76 *)

\* the character put in front of the one it should replace
ReplaceWordInserting(word, charIdx, char) ==
    PySliceTo(word, charIdx) \o char \o PySliceFrom(word, charIdx)

\* the characters before the replaced one lost
ReplaceWordDroppingPrefix(word, charIdx, char) ==
    char \o PySliceFrom(word, charIdx + 1)

\* line 73: word[:charIdx] + char + word[charIdx + 1:]
ReplaceWord(word, charIdx, char) ==
    PySliceTo(word, charIdx) \o char \o PySliceFrom(word, charIdx + 1)

\* words[wordIdx] exists: -len(words) <= wordIdx < len(words)
PyIndexOk(list, idx) == 0 - Len(list) <= idx /\ idx < Len(list)

\* the position of list[idx] in the sequence
PyPos(list, idx) == IF idx < 0 THEN idx + Len(list) + 1 ELSE idx + 1

RECURSIVE ReplaceChars(_, _)
\* lines 71-76: the loop over the items of the dict, in its order; the list
\* is changed in place, so an IndexError leaves the words replaced so far
ReplaceChars(ws, d) ==
    IF d = <<>> THEN [words |-> ws, raised |-> FALSE]
    ELSE LET wordIdx == d[1].key
             charIdx == d[1].val[1]
             char == d[1].val[2]
         IN  IF ~PyIndexOk(ws, wordIdx) THEN [words |-> ws, raised |-> TRUE]
             ELSE ReplaceChars(
                      [ws EXCEPT ![PyPos(ws, wordIdx)] =
                          ReplaceWord(ws[PyPos(ws, wordIdx)], charIdx, char)],
                      Tail(d))

\* replaceChars called on its own, and called again on the list it returned
ReplaceCall ==
    /\ op = "replaceChars" /\ pc = "apply"
    /\ LET r == ReplaceChars(words, charsToChange)
       IN  /\ words' = r.words
           /\ IF r.raised
              THEN /\ ret' = RaiseOut("IndexError") /\ pc' = "done"
                   /\ UNCHANGED <<once, applied>>
              ELSE /\ ret' = [kind |-> "list", val |-> r.words]
                   /\ applied' = applied + 1
                   /\ once' = (IF applied = 0 THEN r.words ELSE once)
                   /\ pc' = (IF applied = 0 THEN "apply" ELSE "done")
    /\ UNCHANGED <<op, randomIntVars, planVars, genVars, words0, sampled>>

Letters == <<"a", "b", "c", "d", "e", "f", "g", "h">>

\* the word of n letters
WordOfLen(n) == SubSeq(Letters, 1, n)

\* the lists of at most MaxWords words of at most MaxWordLen letters
WordLists ==
    UNION {[1..n -> {WordOfLen(l) : l \in 0..MaxWordLen}] : n \in 0..MaxWords}

\* two symbols of the table
SymbolSamples == {<<extraChars[1][1]>>, <<extraChars[6][6]>>}

\* the items a plan is made of: word indices up to one past the longest
\* list, character indices up to one past the longest word
PlanItems ==
    [key : 0..MaxWords, val : (0..MaxWordLen) \X SymbolSamples]

RECURSIVE PlansOf(_)
\* the dicts of at most n items
PlansOf(n) ==
    IF n = 0 THEN {<<>>}
    ELSE LET shorter == PlansOf(n - 1)
         IN  shorter \cup
             {Append(d, it) : d \in shorter, it \in PlanItems}

PlanInputs == {d \in PlansOf(MaxCount) : PlanDistinct(d)}

InitApply ==
    /\ op = "replaceChars" /\ pc = "apply"
    /\ words \in WordLists /\ words0 = words
    /\ charsToChange \in PlanInputs
    /\ once = <<>> /\ applied = 0
    /\ numCharsToChange = 0 /\ wordLengths = <<>> /\ overwrote = FALSE
    /\ RandomIntIdle /\ GenIdle
    /\ ret = NoRet /\ sampled = FALSE

NextApply == ReplaceCall

SpecApply == InitApply /\ [][NextApply]_vars

\* the lengths of the words of a list
LengthsOf(ws) == [k \in 1..Len(ws) |-> Len(ws[k])]

\* C8: for a plan whose word indices and character indices are in bounds,
\* replaceChars applied to the result of a first application gives the list of
\* words that the first application gave.
ApplyIdempotent ==
    (/\ op = "replaceChars" /\ applied = 2
     /\ PlanInBounds(charsToChange, LengthsOf(words0)))
        => (words = once /\ ret = [kind |-> "list", val |-> once])

\* two applications of a plan of two items that changed the words
ApplyIdempotentWitness ==
    /\ op = "replaceChars" /\ applied = 2
    /\ PlanInBounds(charsToChange, LengthsOf(words0))
    /\ Len(charsToChange) = 2
    /\ once # words0 /\ words = once

\* C10: for a plan in bounds, replaceChars keeps the number and the order of
\* the words; a planned word keeps its length, holds the planned symbol at
\* the planned index and is unchanged elsewhere; a word that is not planned
\* is the input word.
ApplyFrame ==
    (/\ op = "replaceChars" /\ applied >= 1
     /\ PlanInBounds(charsToChange, LengthsOf(words0)))
        => /\ Len(once) = Len(words0)
           /\ \A k \in 1..Len(words0) :
                 IF DictHas(charsToChange, k - 1)
                 THEN LET item == DictGet(charsToChange, k - 1)
                      IN  /\ Len(once[k]) = Len(words0[k])
                          /\ <<once[k][item[1] + 1]>> = item[2]
                          /\ \A c \in 1..Len(words0[k]) :
                                c # item[1] + 1 => once[k][c] = words0[k][c]
                 ELSE once[k] = words0[k]

\* one application: the second word planned at its last character, the first
\* word not planned
ApplyFrameWitness ==
    /\ op = "replaceChars" /\ applied = 1
    /\ words0 = <<WordOfLen(1), WordOfLen(2)>>
    /\ charsToChange = <<[key |-> 1, val |-> <<1, <<extraChars[6][6]>> >>]>>
    /\ once = <<WordOfLen(1), <<"a", extraChars[6][6]>> >>

----------------------------------------------------------------------------
(* generatePassword, lines 79-96 *)

\* the characters str(rollDice(1)) can be
DieChars == {"1", "2", "3", "4", "5", "6"}

\* the 6^5 keys of a complete wordlist
AllKeys == [1..RollsPerWord -> DieChars]

\* the wordlist of three entries
ExampleDict ==
    [key \in {<<"1", "1", "1", "1", "1">>, <<"1", "1", "1", "1", "2">>,
              <<"1", "1", "1", "1", "3">>} |->
        IF key[5] = "1" THEN <<"a", "l", "p", "h", "a">>
        ELSE IF key[5] = "2" THEN <<"b", "r", "a", "v", "o">>
        ELSE <<"c", "h", "a", "r", "l", "i", "e">>]

\* a wordlist of short words, one of them empty (a line "11113<tab>")
ShortDict ==
    [key \in {<<"1", "1", "1", "1", "1">>, <<"1", "1", "1", "1", "2">>,
              <<"1", "1", "1", "1", "3">>} |->
        IF key[5] = "1" THEN WordOfLen(2)
        ELSE IF key[5] = "2" THEN <<"c">>
        ELSE <<>>]

\* the words of the complete wordlist
FullWord(key) == IF key[1] \in {"1", "2", "3"} THEN WordOfLen(2) ELSE <<"c">>

\* key in dictionary
HasKey(name, key) ==
    CASE name = "example" -> key \in DOMAIN ExampleDict
      [] name = "short" -> key \in DOMAIN ShortDict
      [] name = "full" -> key \in AllKeys

\* dictionary[key]
Lookup(name, key) ==
    CASE name = "example" -> ExampleDict[key]
      [] name = "short" -> ShortDict[key]
      [] name = "full" -> FullWord(key)

\* a check that lets one substitution too many through
GenRejectsLate(n, x) == x > n + 1

\* line 84
GenRejects(n, x) == x > n

\* the new word put first
WordsPrepend(ws, w) == <<w>> \o ws

\* line 91: words.append(w)
WordsAppend(ws, w) == Append(ws, w)

\* lines 84-87
GenCheck ==
    /\ pc = "generatePassword"
    /\ IF GenRejects(wordNum, extra)
       THEN pc' = "done" /\ ret' = RaiseOut("ValueError")
       ELSE pc' = "words" /\ ret' = ret
    /\ UNCHANGED <<op, randomIntVars, planVars, genVars, applyVars, sampled>>

\* line 90: one more str(rollDice(1)) in the list that makes the key
GenRoll ==
    /\ pc = "words" /\ Len(words) < wordNum /\ Len(rolls) < RollsPerWord
    /\ \E r \in IntVals(rollDice(1)) : rolls' = Append(rolls, Str(r))
    /\ sampled' = TRUE
    /\ UNCHANGED <<op, pc, randomIntVars, planVars, dictionary, wordNum,
                   extra, looked, applyVars, ret>>

\* lines 90-91: the key is joined and looked up
GenLookup ==
    /\ pc = "words" /\ Len(words) < wordNum /\ Len(rolls) = RollsPerWord
    /\ LET key == JoinStr(<<>>, rolls)
       IN  IF HasKey(dictionary, key)
           THEN /\ words' = WordsAppend(words, Lookup(dictionary, key))
                /\ looked' = Append(looked, Lookup(dictionary, key))
                /\ rolls' = <<>>
                /\ UNCHANGED <<pc, ret>>
           ELSE /\ ret' = RaiseOut("KeyError") /\ pc' = "done"
                /\ UNCHANGED <<words, looked, rolls>>
    /\ UNCHANGED <<op, randomIntVars, planVars, dictionary, wordNum, extra,
                   words0, once, applied, sampled>>

\* line 93: the call of getCharsToChange
GenPlan ==
    /\ pc = "words" /\ Len(words) >= wordNum
    /\ numCharsToChange' = extra
    /\ wordLengths' = LengthsOf(words)
    /\ charsToChange' = <<>>
    /\ pc' = "plan_loop"
    /\ UNCHANGED <<op, randomIntVars, overwrote, genVars, applyVars, ret, sampled>>

\* line 94: the call of replaceChars
GenReplace ==
    /\ pc = "replace"
    /\ LET r == ReplaceChars(words, charsToChange)
       IN  /\ words' = r.words
           /\ IF r.raised
              THEN ret' = RaiseOut("IndexError") /\ pc' = "done"
              ELSE ret' = ret /\ pc' = "join"
    /\ UNCHANGED <<op, randomIntVars, planVars, genVars, words0, once,
                   applied, sampled>>

\* line 96
GenJoin ==
    /\ pc = "join"
    /\ ret' = [kind |-> "str", val |-> JoinStr(<<" ">>, words)]
    /\ pc' = "done"
    /\ UNCHANGED <<op, randomIntVars, planVars, genVars, applyVars, sampled>>

\* the calls: the short and the complete wordlist with up to MaxWords words
\* and MaxExtra substitutions, the example's wordlist with up to its three
\* words and one substitution
GenCalls ==
    ({"short", "full"} \X (0..MaxWords) \X (0..MaxExtra))
        \cup ({"example"} \X (0..Cardinality(DOMAIN ExampleDict)) \X (0..1))

InitGen ==
    /\ op = "generatePassword" /\ pc = "generatePassword"
    /\ \E call \in GenCalls :
          dictionary = call[1] /\ wordNum = call[2] /\ extra = call[3]
    /\ rolls = <<>> /\ looked = <<>>
    /\ RandomIntIdle /\ PlanIdle /\ ApplyIdle
    /\ ret = NoRet /\ sampled = FALSE

NextGen ==
    \/ GenCheck \/ GenRoll \/ GenLookup \/ GenPlan
    \/ (\E w \in 0..(Len(wordLengths) - 1) : PlanIter(w))
    \/ PlanRaise \/ PlanReturn
    \/ GenReplace \/ GenJoin

SpecGen == InitGen /\ [][NextGen]_vars

ReturnsLookedUpWords ==
    (op = "generatePassword" /\ extra = 0 /\ pc = "done")
        => \/ ret = RaiseOut("KeyError")
           \/ /\ ret.kind = "str"
              /\ Len(looked) = wordNum
              /\ words = looked
              /\ ret.val = JoinStr(<<" ">>, looked)

\* keys 11111, 11112, 11113 of the example's wordlist
ReturnsLookedUpWordsWitness ==
    /\ op = "generatePassword" /\ pc = "done"
    /\ dictionary = "example" /\ wordNum = 3 /\ extra = 0
    /\ looked = <<ExampleDict[<<"1", "1", "1", "1", "1">>],
                  ExampleDict[<<"1", "1", "1", "1", "2">>],
                  ExampleDict[<<"1", "1", "1", "1", "3">>]>>
    /\ ret = [kind |-> "str",
              val |-> <<"a", "l", "p", "h", "a", " ", "b", "r", "a", "v", "o",
                        " ", "c", "h", "a", "r", "l", "i", "e">>]

====
